---- MODULE Spec2Model ----
(***************************************************************************)
(* A model of fastapi_db's declarative transaction engine                  *)
(* (src/fastapi_db/extensions.py): the FastAPIDB provider, the             *)
(* context-local slot (a ContextVar), TransactionContext,                  *)
(* TransactionManager.__enter__/__exit__, build_session, transaction_pop   *)
(* and the transactional decorator.                                        *)
(*                                                                         *)
(* Objects live in heaps: ctxs (TransactionContext objects), mgrs          *)
(* (TransactionManager objects, one per with-statement).  Sessions are     *)
(* opaque: a session is a number, and everything done to it (and every     *)
(* callback invoked) is appended to trace, each event naming the manager   *)
(* whose __enter__/__exit__ performed it.                                  *)
(***************************************************************************)
EXTENDS Integers, Sequences, FiniteSets, TLC

\* ------------------------------------------------------------- bounds
\* TransactionManager objects (with-statements) entered over a whole run.
MaxScopes == 3

\* ------------------------------------------------------------- values
\* Python's None, wherever a field or argument is optional.
NoneVal == "None"
\* The unset ContextVar (LookupError on get) / an absent ambient context.
NoCtx == 0
\* A context whose session attribute was deleted (del transaction_context.session).
NoSession == 0

\* transaction_enums.Propagation, by value.
Propagation == {"required", "new", "mandatory"}
\* transaction_enums.Isolation, by value.
Isolation == {"DEFAULT", "READ UNCOMMITTED", "READ COMMITTED", "REPEATABLE READ", "SERIALIZABLE"}

\* Logical call chains (each has its own view of the ContextVar).
MainTask == "main"
Tasks == {MainTask}

\* Errors a unit of work raises (business failures).
BizErrors == {"ValueError"}
\* The error session.commit() raises when it fails.
CommitError == "CommitError"

\* The units of work of the program checked by Spec, as declared: those of
\* example.py (test1/test2: @transactional(); test3: propagation NEW) and
\* units with the other policies: MANDATORY, a rollback_callback with
\* autocommit off, both callbacks with autocommit on.
\* autocommit is the declared argument: None, True or False.
Unit(p, i, a, rb, ex) ==
    [propagation |-> p, isolation |-> i, autocommit |-> a,
     rollback_callback |-> rb, exception_callback |-> ex]
Units ==
    { Unit("required", "DEFAULT", "None", NoneVal, NoneVal),
      Unit("new", "DEFAULT", "None", NoneVal, NoneVal),
      Unit("mandatory", "DEFAULT", "None", NoneVal, NoneVal),
      Unit("new", "DEFAULT", "False", "handle_rollback", NoneVal),
      Unit("required", "DEFAULT", "True", "handle_rollback", "handle_exception") }
\* What an exception_callback may return: False, or None.
CallbackReturns == {"False", "None"}
\* cover_request_transaction of the decorated units (its default).
CoverChoices == {TRUE}
\* Whether a unit catches the error of a with-statement nested in it: the
\* units checked by Spec do not, the error leaves them too.
CatchChoices == {FALSE}

VARIABLES
    extensions,     \* _extensions: [init, autocommit]
    nsess,          \* sessions the session_factory has produced so far
    ctxs,           \* heap of TransactionContext objects
    slot,           \* _transaction_context, per task: a ctx id or NoCtx
    mgrs,           \* heap of TransactionManager objects (scopes)
    stack,          \* per task: the managers whose unit of work is running
    trace           \* every session call and callback invocation, in order

vars == <<extensions, nsess, ctxs, slot, mgrs, stack, trace>>

\* One recorded call: op on session sess / context ctx with argument arg,
\* made by manager by; ret is what it returned or "raise".
Ev(op, sess, ctx, arg, by, ret) ==
    [op |-> op, sess |-> sess, ctx |-> ctx, arg |-> arg, by |-> by, ret |-> ret]

\* ------------------------------------------------------------ provider
\* _check_init: TRUE when it raises SessionInitError.
check_init_raises == ~extensions.init

\* ctx.app.autocommit if autocommit is None else autocommit
resolve_autocommit(autocommit) ==
    IF autocommit = "None" THEN extensions.autocommit ELSE autocommit = "True"

\* ------------------------------------------------------------ contexts
\* `self.active_isolation` in the guard names the bound method, not the flag
\* is_active_isolation: a bound method is always truthy.
bound_method_is_truthy == TRUE

\* active_isolation guarded by the level alone: a statement on every call
\* with a level other than DEFAULT.
active_isolation_unguarded(tc, c, isolation, by) ==
    IF isolation = "DEFAULT"
    THEN [ctx |-> [tc EXCEPT !.is_active_isolation = TRUE], events |-> <<>>]
    ELSE [ctx |-> [tc EXCEPT !.is_active_isolation = TRUE],
          events |-> <<Ev("execute", tc.session, c, isolation, by, "None")>>]

\* TransactionContext.active_isolation: the context after the call and the
\* statements executed on its session.
active_isolation(tc, c, isolation, by) ==
    IF isolation = "DEFAULT" \/ bound_method_is_truthy
    THEN [ctx |-> [tc EXCEPT !.is_active_isolation = TRUE], events |-> <<>>]
    ELSE [ctx |-> [tc EXCEPT !.is_active_isolation = TRUE],
          events |-> <<Ev("execute", tc.session, c, isolation, by, "None")>>]

\* TransactionContext.__init__
TransactionContext_init(session, propagation, isolation, autocommit, rollback_callback, exception_callback, c, by) ==
    LET tc0 == [session |-> session,
                propagation |-> propagation,
                isolation |-> isolation,
                autocommit |-> autocommit,
                is_super |-> FALSE,
                source |-> "normal",
                rollback_callback |-> rollback_callback,
                exception_callback |-> exception_callback,
                is_active_isolation |-> FALSE,
                tok_old |-> NoCtx,
                tok_set |-> FALSE,
                tok_used |-> FALSE]
    IN  active_isolation(tc0, c, isolation, by)

\* -------------------------------------------------------------- the slot
\* get_transaction_context without its _check_init call.
get_transaction_context_err_unchecked(t, sl) ==
    IF sl[t] = NoCtx THEN "SessionContextError" ELSE NoneVal

\* get_transaction_context: NoneVal when it returns the slot's context,
\* otherwise the error it raises.
get_transaction_context_err(t, sl) ==
    IF check_init_raises THEN "SessionInitError"
    ELSE IF sl[t] = NoCtx THEN "SessionContextError"
    ELSE NoneVal

\* ------------------------------------------------------------- sessions
\* build_session with REQUIRED always opening a session of its own.
build_session_required_opens(t, propagation, cx, sl, ns) ==
    LET old_transaction == sl[t]
    IN  IF propagation = "mandatory"
        THEN IF old_transaction = NoCtx
             THEN [err |-> "SessionContextError", created |-> FALSE, session |-> NoSession]
             ELSE [err |-> NoneVal, created |-> FALSE,
                   session |-> cx[old_transaction].session]
        ELSE [err |-> NoneVal, created |-> TRUE, session |-> ns + 1]

\* build_session with MANDATORY treated like REQUIRED when nothing is ambient.
build_session_mandatory_opens(t, propagation, cx, sl, ns) ==
    LET old_transaction == sl[t]
    IN  IF propagation = "new" \/ old_transaction = NoCtx
        THEN [err |-> NoneVal, created |-> TRUE, session |-> ns + 1]
        ELSE [err |-> NoneVal, created |-> FALSE,
              session |-> cx[old_transaction].session]

\* TransactionManager.build_session: err is the error raised (NoneVal when
\* none); created says the session_factory was called, and session is the
\* session returned.  Called after _check_init has passed.
build_session(t, propagation, cx, sl, ns) ==
    LET old_transaction == sl[t]
    IN  IF propagation = "mandatory"
        THEN IF old_transaction = NoCtx
             THEN [err |-> "SessionContextError", created |-> FALSE, session |-> NoSession]
             ELSE IF cx[old_transaction].session = NoSession
             THEN [err |-> "AttributeError", created |-> FALSE, session |-> NoSession]
             ELSE [err |-> NoneVal, created |-> FALSE,
                   session |-> cx[old_transaction].session]
        ELSE IF propagation = "new"
        THEN [err |-> NoneVal, created |-> TRUE, session |-> ns + 1]
        ELSE IF propagation = "required"
        THEN IF old_transaction = NoCtx
             THEN [err |-> NoneVal, created |-> TRUE, session |-> ns + 1]
             ELSE IF cx[old_transaction].session = NoSession
             THEN [err |-> "AttributeError", created |-> FALSE, session |-> NoSession]
             ELSE [err |-> NoneVal, created |-> FALSE,
                   session |-> cx[old_transaction].session]
        ELSE [err |-> "RuntimeError", created |-> FALSE, session |-> NoSession]

\* The is_super decision with a joining MANDATORY scope made an owner.
enter_is_super_mandatory_owns(t, propagation, sl) ==
    IF propagation \in {"new", "mandatory"} THEN TRUE
    ELSE get_transaction_context_err(t, sl) # NoneVal

\* The is_super decision of __enter__ (lines 181-188): NEW, or the lookup of
\* the ambient context raised.
enter_is_super(t, propagation, sl) ==
    IF propagation = "new" THEN TRUE
    ELSE get_transaction_context_err(t, sl) # NoneVal

\* __enter__ storing the context in one variable shared by every task.
TransactionManager_enter_global_slot(t, propagation, isolation, autocommit, rollback_callback, exception_callback, cx, by) ==
    LET bs == build_session(t, propagation, cx, slot, nsess)
        c == Len(cx) + 1
        ti == TransactionContext_init(bs.session, propagation, isolation,
                                      resolve_autocommit(autocommit),
                                      rollback_callback, exception_callback, c, by)
        context == [ti.ctx EXCEPT !.is_super = enter_is_super(t, propagation, slot),
                                  !.tok_old = slot[t],
                                  !.tok_set = TRUE]
    IN  IF bs.err # NoneVal
        THEN [err |-> bs.err, ctxs |-> cx, slot |-> slot, nsess |-> nsess,
              events |-> <<>>, ctx |-> NoCtx, session |-> NoSession,
              autocommit |-> resolve_autocommit(autocommit)]
        ELSE [err |-> NoneVal,
              ctxs |-> Append(cx, context),
              slot |-> [u \in DOMAIN slot |-> c],
              nsess |-> IF bs.created THEN nsess + 1 ELSE nsess,
              events |-> (IF bs.created
                          THEN <<Ev("session_factory", bs.session, NoCtx, NoneVal, by, "None")>>
                          ELSE <<>>) \o ti.events,
              ctx |-> c,
              session |-> bs.session,
              autocommit |-> resolve_autocommit(autocommit)]

\* TransactionManager.__enter__ by manager `by` of task t, on context heap cx:
\* the error raised (NoneVal when it returns), and the heap, slot, session
\* count and events after it.
TransactionManager_enter(t, propagation, isolation, autocommit, rollback_callback, exception_callback, cx, by) ==
    LET unchanged == [err |-> NoneVal, ctxs |-> cx, slot |-> slot, nsess |-> nsess,
                      events |-> <<>>, ctx |-> NoCtx, session |-> NoSession,
                      autocommit |-> FALSE]
    IN  IF check_init_raises
        THEN [unchanged EXCEPT !.err = "SessionInitError"]
        ELSE
        LET auto == resolve_autocommit(autocommit)
            bs == build_session(t, propagation, cx, slot, nsess)
        IN  IF bs.err # NoneVal
            THEN [unchanged EXCEPT !.err = bs.err, !.autocommit = auto]
            ELSE
            LET c == Len(cx) + 1
                made == IF bs.created
                        THEN <<Ev("session_factory", bs.session, NoCtx, NoneVal, by, "None")>>
                        ELSE <<>>
                ti == TransactionContext_init(bs.session, propagation, isolation, auto,
                                              rollback_callback, exception_callback, c, by)
                context == [ti.ctx EXCEPT !.is_super = enter_is_super(t, propagation, slot),
                                          !.tok_old = slot[t],
                                          !.tok_set = TRUE]
            IN  [err |-> NoneVal,
                 ctxs |-> Append(cx, context),
                 slot |-> [slot EXCEPT ![t] = c],
                 nsess |-> IF bs.created THEN nsess + 1 ELSE nsess,
                 events |-> made \o ti.events,
                 ctx |-> c,
                 session |-> bs.session,
                 autocommit |-> auto]

\* ------------------------------------------------------------------ exit
\* The calls a present callback receives: cb is the context's field.
call_callback(op, cb, c, arg, by, ret) ==
    IF cb # NoneVal THEN <<Ev(op, NoSession, c, arg, by, ret)>> ELSE <<>>

\* __exit__, lines 199-207: the error step of an owning context.  raised is
\* the error that aborts __exit__ (a deleted session attribute), else NoneVal.
error_step(tc, c, exc_val, ret, by) ==
    IF exc_val = NoneVal
    THEN [events |-> <<>>, raised |-> NoneVal]
    ELSE
    LET rollback == IF tc.exception_callback # NoneVal THEN ret ELSE "None"
        first == call_callback("exception_callback", tc.exception_callback,
                               c, exc_val, by, ret)
    IN  IF rollback = "False" /\ tc.session = NoSession
        THEN [events |-> first, raised |-> "AttributeError"]
        ELSE [events |-> first
                \o (IF rollback = "False"
                    THEN <<Ev("rollback", tc.session, c, NoneVal, by, "None")>>
                    ELSE <<>>)
                \o call_callback("rollback_callback", tc.rollback_callback,
                                 c, exc_val, by, "None"),
              raised |-> NoneVal]

\* The return value of a call whose result the code does not read.
Discarded == "discarded"

\* The commit step with the handler's `raise e` left out.
commit_step_swallows(tc, c, exc_val, commit_raises, by) ==
    IF ~tc.autocommit
    THEN [events |-> <<>>, raised |-> NoneVal]
    ELSE IF commit_raises
    THEN [events |-> <<Ev("commit", tc.session, c, NoneVal, by, "raise")>>
                \o call_callback("exception_callback", tc.exception_callback,
                                 c, exc_val, by, Discarded)
                \o <<Ev("rollback", tc.session, c, NoneVal, by, "None")>>
                \o call_callback("rollback_callback", tc.rollback_callback,
                                 c, exc_val, by, "None"),
          raised |-> NoneVal]
    ELSE [events |-> <<Ev("commit", tc.session, c, NoneVal, by, "None")>>,
          raised |-> NoneVal]

\* __exit__, lines 210-219: the commit step.  commit_raises is the outcome of
\* session.commit(); raised is the error the step leaves __exit__ with.
commit_step(tc, c, exc_val, commit_raises, by) ==
    IF ~tc.autocommit
    THEN [events |-> <<>>, raised |-> NoneVal]
    ELSE IF tc.session = NoSession
    THEN [events |-> call_callback("exception_callback", tc.exception_callback,
                                   c, exc_val, by, Discarded),
          raised |-> "AttributeError"]
    ELSE IF commit_raises
    THEN [events |-> <<Ev("commit", tc.session, c, NoneVal, by, "raise")>>
                \o call_callback("exception_callback", tc.exception_callback,
                                 c, exc_val, by, Discarded)
                \o <<Ev("rollback", tc.session, c, NoneVal, by, "None")>>
                \o call_callback("rollback_callback", tc.rollback_callback,
                                 c, exc_val, by, "None"),
          raised |-> CommitError]
    ELSE [events |-> <<Ev("commit", tc.session, c, NoneVal, by, "None")>>,
          raised |-> NoneVal]

\* transaction_pop deciding the commit by the context's autocommit alone.
transaction_pop_ignores_argument(t, autocommit, cx, sl, commit_raises, by) ==
    LET c == sl[t]
        nothing == [events |-> <<>>, ctxs |-> cx, slot |-> sl, raised |-> NoneVal]
    IN  IF c = NoCtx THEN nothing
        ELSE IF cx[c].session = NoSession
        THEN [nothing EXCEPT !.raised = "AttributeError"]
        ELSE IF cx[c].autocommit /\ commit_raises
        THEN [nothing EXCEPT
                !.events = <<Ev("commit", cx[c].session, c, NoneVal, by, "raise")>>,
                !.raised = CommitError]
        ELSE [events |-> (IF cx[c].autocommit
                          THEN <<Ev("commit", cx[c].session, c, NoneVal, by, "None")>>
                          ELSE <<>>)
                         \o <<Ev("close", cx[c].session, c, NoneVal, by, "None")>>,
              ctxs |-> [cx EXCEPT ![c].session = NoSession, ![c].tok_used = TRUE],
              slot |-> [sl EXCEPT ![t] = cx[c].tok_old],
              raised |-> NoneVal]

\* transaction_pop restoring the token's old value in every task's slot.
transaction_pop_resets_all(t, autocommit, cx, sl, commit_raises, by) ==
    LET c == sl[t]
        nothing == [events |-> <<>>, ctxs |-> cx, slot |-> sl, raised |-> NoneVal]
    IN  IF c = NoCtx THEN nothing
        ELSE IF cx[c].session = NoSession
        THEN [nothing EXCEPT !.raised = "AttributeError"]
        ELSE [events |-> <<Ev("close", cx[c].session, c, NoneVal, by, "None")>>,
              ctxs |-> [cx EXCEPT ![c].session = NoSession, ![c].tok_used = TRUE],
              slot |-> [u \in DOMAIN sl |-> cx[c].tok_old],
              raised |-> NoneVal]

\* transaction_pop(autocommit) in task t on heap cx and slot sl, with the
\* provider initialised: commit when the resolved autocommit is true, close,
\* delete the session attribute, reset the ContextVar with the context's
\* token.  A token is good for one reset.
transaction_pop(t, autocommit, cx, sl, commit_raises, by) ==
    LET c == sl[t]
        nothing == [events |-> <<>>, ctxs |-> cx, slot |-> sl, raised |-> NoneVal]
    IN  IF c = NoCtx THEN nothing
        ELSE
        LET tc == cx[c]
            auto == IF autocommit = "None" THEN tc.autocommit ELSE autocommit = "True"
        IN  IF tc.session = NoSession
            THEN [nothing EXCEPT !.raised = "AttributeError"]
            ELSE IF auto /\ commit_raises
            THEN [nothing EXCEPT
                    !.events = <<Ev("commit", tc.session, c, NoneVal, by, "raise")>>,
                    !.raised = CommitError]
            ELSE
            LET evs == (IF auto
                        THEN <<Ev("commit", tc.session, c, NoneVal, by, "None")>>
                        ELSE <<>>)
                       \o <<Ev("close", tc.session, c, NoneVal, by, "None")>>
                closed == [cx EXCEPT ![c].session = NoSession]
            IN  IF tc.tok_used \/ ~tc.tok_set
                THEN [events |-> evs, ctxs |-> closed, slot |-> sl,
                      raised |-> "RuntimeError"]
                ELSE [events |-> evs,
                      ctxs |-> [closed EXCEPT ![c].tok_used = TRUE],
                      slot |-> [sl EXCEPT ![t] = tc.tok_old],
                      raised |-> NoneVal]

\* __exit__ without the is_super test: every scope's exit finalizes.
TransactionManager_exit_every_scope_finalizes(t, exc_val, ret, commit_raises, by) ==
    LET nothing == [events |-> <<>>, ctxs |-> ctxs, slot |-> slot, raised |-> NoneVal]
    IN  IF get_transaction_context_err(t, slot) # NoneVal
        THEN [nothing EXCEPT !.raised = get_transaction_context_err(t, slot)]
        ELSE
        LET es == error_step(ctxs[slot[t]], slot[t], exc_val, ret, by)
            cs == commit_step(ctxs[slot[t]], slot[t], exc_val, commit_raises, by)
            tp == transaction_pop(t, "False", ctxs, slot, FALSE, by)
        IN  IF es.raised # NoneVal
            THEN [nothing EXCEPT !.events = es.events, !.raised = es.raised]
            ELSE IF cs.raised # NoneVal
            THEN [nothing EXCEPT !.events = es.events \o cs.events, !.raised = cs.raised]
            ELSE [events |-> es.events \o cs.events \o tp.events,
                  ctxs |-> tp.ctxs, slot |-> tp.slot, raised |-> tp.raised]

\* TransactionManager.__exit__(exc_type, exc_val, exc_tb) by manager `by` in
\* task t: what it did, and raised: the error it raises itself (NoneVal when
\* it returns None, which lets exc_val propagate).
TransactionManager_exit(t, exc_val, ret, commit_raises, by) ==
    LET nothing == [events |-> <<>>, ctxs |-> ctxs, slot |-> slot, raised |-> NoneVal]
        lookup == get_transaction_context_err(t, slot)
    IN  IF lookup # NoneVal THEN [nothing EXCEPT !.raised = lookup]
        ELSE
        LET c == slot[t]
            tc == ctxs[c]
        IN  IF ~tc.is_super THEN nothing
            ELSE
            LET es == error_step(tc, c, exc_val, ret, by)
            IN  IF es.raised # NoneVal
                THEN [nothing EXCEPT !.events = es.events, !.raised = es.raised]
                ELSE
                LET cs == commit_step(tc, c, exc_val, commit_raises, by)
                IN  IF cs.raised # NoneVal
                    THEN [nothing EXCEPT !.events = es.events \o cs.events,
                                         !.raised = cs.raised]
                    ELSE
                    LET tp == transaction_pop(t, "False", ctxs, slot, FALSE, by)
                    IN  [events |-> es.events \o cs.events \o tp.events,
                         ctxs |-> tp.ctxs,
                         slot |-> tp.slot,
                         raised |-> tp.raised]

\* What the caller of a with-statement sees once __exit__ is done: the error
\* __exit__ raised, else the unit's own error (it returns None: not swallowed).
with_outcome(exc_val, raised) ==
    IF raised # NoneVal THEN raised ELSE exc_val

\* --------------------------------------------------------------- wrapper
\* The rewrite without the test of the context's source.
wrapper_rewrite_any_source(t, propagation, isolation, autocommit, rollback_callback, exception_callback, cover_request_transaction, by) ==
    IF get_transaction_context_err(t, slot) # NoneVal \/ ~cover_request_transaction
    THEN [ctxs |-> ctxs, events |-> <<>>]
    ELSE [ctxs |-> [ctxs EXCEPT ![slot[t]].propagation = propagation,
                                ![slot[t]].isolation = isolation,
                                ![slot[t]].autocommit = resolve_autocommit(autocommit),
                                ![slot[t]].rollback_callback = rollback_callback,
                                ![slot[t]].exception_callback = exception_callback],
          events |-> <<>>]

\* transactional.wrapper, lines 303-314: the in-place rewrite of an ambient
\* context opened by the request middleware (source = 'request').
wrapper_rewrite(t, propagation, isolation, autocommit, rollback_callback, exception_callback, cover_request_transaction, by) ==
    LET nothing == [ctxs |-> ctxs, events |-> <<>>]
    IN  IF get_transaction_context_err(t, slot) # NoneVal THEN nothing
        ELSE
        LET c == slot[t]
            tc == ctxs[c]
        IN  IF cover_request_transaction /\ tc.source = "request"
            THEN LET tc1 == [tc EXCEPT !.propagation = propagation,
                                       !.isolation = isolation,
                                       !.autocommit = resolve_autocommit(autocommit),
                                       !.rollback_callback = rollback_callback,
                                       !.exception_callback = exception_callback]
                     ai == active_isolation(tc1, c, tc1.isolation, by)
                 IN  [ctxs |-> [ctxs EXCEPT ![c] = ai.ctx], events |-> ai.events]
            ELSE nothing

\* ------------------------------------------------------------ the chains
\* The manager whose unit of work is running in task t (0: none, top level).
Top(t) == IF stack[t] = <<>> THEN 0 ELSE stack[t][Len(stack[t])]

\* Task t can run code: it is at top level, or inside a unit that has not
\* been left by an error yet.
Running(t) == IF Top(t) = 0 THEN TRUE ELSE mgrs[Top(t)].exc = NoneVal

\* Error err reaches the unit of manager parent: there is an error and an
\* enclosing unit, which then catches it or not.
Reaches(err, parent) == err # NoneVal /\ parent # 0

\* Some event of evs is a call of op.
Called(evs, op) == \E i \in 1..Len(evs) : evs[i].op = op

\* An error leaves a with-statement (or a failed __enter__) of manager m:
\* the enclosing unit catches it, or is left by it in turn.
Propagate(ms, m, err, catch) ==
    IF err # NoneVal /\ ~catch /\ ms[m].parent # 0
    THEN [ms EXCEPT ![ms[m].parent].exc = err]
    ELSE ms

\* A with-statement of task t is entered: `with local_transaction(...)`, on
\* context heap cx (the heap as the caller left it), after events evs0.
EnterScope(t, propagation, isolation, autocommit, rollback_callback, exception_callback, cx, evs0, catch) ==
    LET by == Len(mgrs) + 1
        r == TransactionManager_enter(t, propagation, isolation, autocommit,
                                      rollback_callback, exception_callback, cx, by)
        mg == [task |-> t,
               parent |-> Top(t),
               propagation |-> propagation,
               isolation |-> isolation,
               autocommit |-> r.autocommit,
               rollback_callback |-> rollback_callback,
               exception_callback |-> exception_callback,
               ctx |-> r.ctx,
               session |-> r.session,
               status |-> IF r.err = NoneVal THEN "entered" ELSE "enter_failed",
               slot_before |-> slot[t],
               nsess_before |-> nsess,
               exc |-> NoneVal,
               result |-> r.err,
               exit_ctx |-> NoCtx,
               slot_after |-> r.slot[t]]
    IN  /\ Len(mgrs) < MaxScopes
        /\ Running(t)
        /\ catch => Reaches(r.err, Top(t))
        /\ ctxs' = r.ctxs
        /\ slot' = r.slot
        /\ nsess' = r.nsess
        /\ trace' = trace \o evs0 \o r.events
        /\ mgrs' = Propagate(Append(mgrs, mg), by, r.err, catch)
        /\ stack' = IF r.err = NoneVal
                    THEN [stack EXCEPT ![t] = Append(@, by)]
                    ELSE stack
        /\ UNCHANGED extensions

\* -------------------------------------------------------------- actions
\* FastAPIDB(...): registers the provider (again).
FastAPIDB_init(autocommit) ==
    /\ extensions' = [init |-> TRUE, autocommit |-> autocommit]
    /\ UNCHANGED <<nsess, ctxs, slot, mgrs, stack, trace>>

\* with local_transaction(...): __enter__.
local_transaction(t, propagation, isolation, autocommit, rollback_callback, exception_callback, catch) ==
    EnterScope(t, propagation, isolation, autocommit,
               rollback_callback, exception_callback, ctxs, <<>>, catch)

\* A call of a function decorated with @transactional(...): the rewrite,
\* then __enter__ of its local_transaction.
transactional(t, propagation, isolation, autocommit, rollback_callback, exception_callback, cover_request_transaction, catch) ==
    LET w == wrapper_rewrite(t, propagation, isolation, autocommit,
                             rollback_callback, exception_callback,
                             cover_request_transaction, Len(mgrs) + 1)
    IN  EnterScope(t, propagation, isolation, autocommit,
                   rollback_callback, exception_callback, w.ctxs, w.events, catch)

\* The unit of work of the innermost with-statement of task t ends, raising
\* exc_in or returning (NoneVal), and __exit__ runs.
ExitScope(t, exc_in, ret, commit_raises, catch) ==
    /\ stack[t] # <<>>
    /\ LET by == Top(t)
           mg == mgrs[by]
           exc_val == IF mg.exc # NoneVal THEN mg.exc ELSE exc_in
           r == TransactionManager_exit(t, exc_val, ret, commit_raises, by)
           outcome == with_outcome(exc_val, r.raised)
           left == [mgrs EXCEPT ![by].status = "exited",
                                ![by].exc = exc_val,
                                ![by].result = outcome,
                                ![by].exit_ctx = slot[t],
                                ![by].slot_after = r.slot[t]]
       IN  /\ mg.exc # NoneVal => exc_in = NoneVal
           /\ ret # "None" => \E i \in 1..Len(r.events) :
                                  /\ r.events[i].op = "exception_callback"
                                  /\ r.events[i].ret = ret
           /\ commit_raises => Called(r.events, "commit")
           /\ catch => Reaches(outcome, mg.parent)
           /\ trace' = trace \o r.events
           /\ ctxs' = r.ctxs
           /\ slot' = r.slot
           /\ mgrs' = Propagate(left, by, outcome, catch)
           /\ stack' = [stack EXCEPT ![t] = SubSeq(@, 1, Len(@) - 1)]
    /\ UNCHANGED <<extensions, nsess>>

\* The state once the application has built its provider, FastAPIDB(...),
\* with the constructor's default for autocommit (True).
Init ==
    /\ extensions = [init |-> TRUE, autocommit |-> TRUE]
    /\ nsess = 0
    /\ ctxs = <<>>
    /\ slot = [t \in Tasks |-> NoCtx]
    /\ mgrs = <<>>
    /\ stack = [t \in Tasks |-> <<>>]
    /\ trace = <<>>

Next ==
    \/ \E u \in Units, catch \in CatchChoices :
            local_transaction(MainTask, u.propagation, u.isolation, u.autocommit,
                              u.rollback_callback, u.exception_callback, catch)
    \/ \E u \in Units, cover \in CoverChoices, catch \in CatchChoices :
            transactional(MainTask, u.propagation, u.isolation, u.autocommit,
                          u.rollback_callback, u.exception_callback, cover, catch)
    \/ \E e \in BizErrors \cup {NoneVal}, ret \in CallbackReturns,
          cr \in BOOLEAN, catch \in CatchChoices :
            ExitScope(MainTask, e, ret, cr, catch)

Spec == Init /\ [][Next]_vars

\* ------------------------------------------------------------ a request
\* One HTTP request: the task that runs the middleware's dispatch, and the
\* task call_next runs the route handler in.
RequestTask == "request"
HandlerTask == "handler"
\* The units of work the handler calls, as declared.
HandlerUnits ==
    { Unit("required", "DEFAULT", "None", NoneVal, NoneVal),
      Unit("new", "SERIALIZABLE", "None", NoneVal, NoneVal),
      Unit("mandatory", "READ COMMITTED", "False", "handle_rollback", "handle_exception") }

\* call_next has started the handler's task / the request is still open.
Spawned == slot[HandlerTask] # NoCtx
RequestOpen == stack[RequestTask] # <<>>

\* FastAPIDBMiddleware.dispatch / db_session_middleware, up to call_next:
\* `with local_transaction(autocommit=self.autocommit)` (propagation NEW by
\* default), then the context in the slot is tagged source = 'request'.
dispatch(t) ==
    LET by == Len(mgrs) + 1
        autocommit == IF extensions.autocommit THEN "True" ELSE "False"
        r == TransactionManager_enter(t, "new", "DEFAULT", autocommit,
                                      NoneVal, NoneVal, ctxs, by)
        mg == [task |-> t,
               parent |-> Top(t),
               propagation |-> "new",
               isolation |-> "DEFAULT",
               autocommit |-> r.autocommit,
               rollback_callback |-> NoneVal,
               exception_callback |-> NoneVal,
               ctx |-> r.ctx,
               session |-> r.session,
               status |-> "entered",
               slot_before |-> slot[t],
               nsess_before |-> nsess,
               exc |-> NoneVal,
               result |-> NoneVal,
               exit_ctx |-> NoCtx,
               slot_after |-> r.slot[t]]
    IN  /\ Len(mgrs) < MaxScopes
        /\ stack[t] = <<>>
        /\ \A m \in 1..Len(mgrs) : mgrs[m].task # t
        /\ r.err = NoneVal
        /\ ctxs' = [r.ctxs EXCEPT ![r.slot[t]].source = "request"]
        /\ slot' = r.slot
        /\ nsess' = r.nsess
        /\ trace' = trace \o r.events
        /\ mgrs' = Append(mgrs, mg)
        /\ stack' = [stack EXCEPT ![t] = Append(@, by)]
        /\ UNCHANGED extensions

\* await call_next(request): the handler runs in a task of its own, started
\* with a copy of the dispatching task's context (ContextVar values).
call_next(parent, child) ==
    /\ stack[parent] # <<>>
    /\ slot[child] = NoCtx
    /\ slot' = [slot EXCEPT ![child] = slot[parent]]
    /\ UNCHANGED <<extensions, nsess, ctxs, mgrs, stack, trace>>

\* The state once the application has built its provider, with either
\* value of autocommit, before a request arrives.
InitRequest ==
    /\ extensions \in {[init |-> TRUE, autocommit |-> a] : a \in BOOLEAN}
    /\ nsess = 0
    /\ ctxs = <<>>
    /\ slot = [t \in {RequestTask, HandlerTask} |-> NoCtx]
    /\ mgrs = <<>>
    /\ stack = [t \in {RequestTask, HandlerTask} |-> <<>>]
    /\ trace = <<>>

\* The request: dispatch, the handler's units while the request is open,
\* then the exit of dispatch's with-statement once the handler is done.
NextRequest ==
    \/ dispatch(RequestTask)
    \/ call_next(RequestTask, HandlerTask)
    \/ /\ Spawned /\ RequestOpen
       /\ \E u \in HandlerUnits, catch \in CatchChoices :
            local_transaction(HandlerTask, u.propagation, u.isolation, u.autocommit,
                              u.rollback_callback, u.exception_callback, catch)
    \/ /\ Spawned /\ RequestOpen
       /\ \E u \in HandlerUnits, cover \in BOOLEAN, catch \in CatchChoices :
            transactional(HandlerTask, u.propagation, u.isolation, u.autocommit,
                          u.rollback_callback, u.exception_callback, cover, catch)
    \/ /\ Spawned /\ RequestOpen
       /\ \E e \in BizErrors \cup {NoneVal}, ret \in CallbackReturns,
             cr \in BOOLEAN, catch \in CatchChoices :
            ExitScope(HandlerTask, e, ret, cr, catch)
    \/ /\ Spawned /\ stack[HandlerTask] = <<>>
       /\ \E e \in BizErrors \cup {NoneVal}, ret \in CallbackReturns,
             cr \in BOOLEAN, catch \in CatchChoices :
            ExitScope(RequestTask, e, ret, cr, catch)

SpecRequest == InitRequest /\ [][NextRequest]_vars

\* ------------------------------------------------------- calls by hand
\* The public functions and the proxy, called from the program's own code.
\* Each call is recorded in trace with by = 0 (no manager) and its outcome:
\* "None" / "ok" when it returns, else the error it raises.
ProxyReads == {"ctx.session", "ctx.context"}
ByHand == ProxyReads \cup {"ctx.app", "get_transaction_context", "set_transaction_context", "transaction_pop"}
\* By-hand calls recorded in one run.
MaxCalls == 1
\* With-statements entered in one run of the program that makes them.
MaxCallScopes == 2
CallsMade == Cardinality({k \in 1..Len(trace) : trace[k].op \in ByHand})
\* The units of work of the program that also makes by-hand calls.
CallUnits ==
    { Unit("required", "DEFAULT", "None", NoneVal, NoneVal),
      Unit("new", "DEFAULT", "False", NoneVal, NoneVal) }

\* FastAPIDBProxy.app: _check_init, then the provider.
ctx_app ==
    /\ CallsMade < MaxCalls
    /\ trace' = Append(trace, Ev("ctx.app", NoSession, NoCtx, NoneVal, 0,
                                 IF check_init_raises THEN "SessionInitError" ELSE "ok"))
    /\ UNCHANGED <<extensions, nsess, ctxs, slot, mgrs, stack>>

\* get_transaction_context() called by the program.
get_transaction_context(t) ==
    /\ CallsMade < MaxCalls
    /\ LET err == get_transaction_context_err(t, slot)
       IN  trace' = Append(trace, Ev("get_transaction_context", NoSession,
                                     IF err = NoneVal THEN slot[t] ELSE NoCtx,
                                     NoneVal, 0, IF err = NoneVal THEN "ok" ELSE err))
    /\ UNCHANGED <<extensions, nsess, ctxs, slot, mgrs, stack>>

\* FastAPIDBProxy.session answering with the session the factory made last
\* instead of the one of the context in the slot.
proxy_read_stale(t, op) ==
    LET err == get_transaction_context_err(t, slot)
    IN  IF err # NoneVal
        THEN Ev(op, NoSession, NoCtx, NoneVal, 0, err)
        ELSE Ev(op, IF op = "ctx.session" THEN nsess ELSE NoSession, slot[t], NoneVal, 0, "ok")

\* FastAPIDBProxy.session / .context: get_transaction_context(), then the
\* context or its session attribute (AttributeError once deleted).
proxy_read(t, op) ==
    LET err == get_transaction_context_err(t, slot)
    IN  IF err # NoneVal
        THEN Ev(op, NoSession, NoCtx, NoneVal, 0, err)
        ELSE IF op = "ctx.context"
        THEN Ev(op, NoSession, slot[t], NoneVal, 0, "ok")
        ELSE IF ctxs[slot[t]].session = NoSession
        THEN Ev(op, NoSession, slot[t], NoneVal, 0, "AttributeError")
        ELSE Ev(op, ctxs[slot[t]].session, slot[t], NoneVal, 0, "ok")

ctx_read(t, op) ==
    /\ CallsMade < MaxCalls
    /\ trace' = Append(trace, proxy_read(t, op))
    /\ UNCHANGED <<extensions, nsess, ctxs, slot, mgrs, stack>>

\* set_transaction_context(context) called by the program with context c.
set_transaction_context(t, c) ==
    /\ CallsMade < MaxCalls
    /\ IF check_init_raises
       THEN /\ trace' = Append(trace, Ev("set_transaction_context", NoSession, c,
                                         NoneVal, 0, "SessionInitError"))
            /\ UNCHANGED slot
       ELSE /\ trace' = Append(trace, Ev("set_transaction_context", NoSession, c,
                                         NoneVal, 0, "ok"))
            /\ slot' = [slot EXCEPT ![t] = c]
    /\ UNCHANGED <<extensions, nsess, ctxs, mgrs, stack>>

\* transaction_pop(autocommit) called by the program.  Before the provider
\* is initialised get_transaction_context raises SessionInitError, which the
\* except clause (RuntimeError, SessionContextError) catches or not
\* (init_error_caught): either way nothing is done.
transaction_pop_call(t, autocommit, commit_raises, init_error_caught) ==
    /\ CallsMade < MaxCalls
    /\ IF check_init_raises
       THEN /\ ~commit_raises
            /\ trace' = Append(trace, Ev("transaction_pop", NoSession, NoCtx, autocommit, 0,
                                         IF init_error_caught THEN "None" ELSE "SessionInitError"))
            /\ UNCHANGED <<ctxs, slot>>
       ELSE LET r == transaction_pop(t, autocommit, ctxs, slot, commit_raises, 0)
            IN  /\ init_error_caught
                /\ commit_raises => Called(r.events, "commit")
                /\ trace' = Append(trace, Ev("transaction_pop", NoSession, slot[t], autocommit, 0,
                                             IF r.raised = NoneVal THEN "None" ELSE r.raised))
                              \o r.events
                /\ ctxs' = r.ctxs
                /\ slot' = r.slot
    /\ UNCHANGED <<extensions, nsess, mgrs, stack>>

\* The state when the program starts: no provider yet.
InitCalls ==
    /\ extensions = [init |-> FALSE, autocommit |-> TRUE]
    /\ nsess = 0
    /\ ctxs = <<>>
    /\ slot = [t \in Tasks |-> NoCtx]
    /\ mgrs = <<>>
    /\ stack = [t \in Tasks |-> <<>>]
    /\ trace = <<>>

\* The program builds its provider once, calls its units (which return
\* normally; an exit fails when session.commit() does), and makes by-hand
\* calls at any point; it sets the slot by hand only in its start-up code
\* (afterwards only __enter__ sets it).
NextCalls ==
    \/ /\ check_init_raises
       /\ \E a \in BOOLEAN : FastAPIDB_init(a)
    \/ /\ Len(mgrs) < MaxCallScopes
       /\ \E u \in CallUnits, catch \in CatchChoices :
            local_transaction(MainTask, u.propagation, u.isolation, u.autocommit,
                              u.rollback_callback, u.exception_callback, catch)
    \/ /\ Len(mgrs) < MaxCallScopes
       /\ \E u \in CallUnits, cover \in CoverChoices, catch \in CatchChoices :
            transactional(MainTask, u.propagation, u.isolation, u.autocommit,
                          u.rollback_callback, u.exception_callback, cover, catch)
    \/ \E ret \in CallbackReturns, cr \in BOOLEAN, catch \in CatchChoices :
            ExitScope(MainTask, NoneVal, ret, cr, catch)
    \/ ctx_app
    \/ get_transaction_context(MainTask)
    \/ \E op \in ProxyReads : ctx_read(MainTask, op)
    \/ /\ check_init_raises
       /\ set_transaction_context(MainTask, NoCtx)
    \/ \E a \in {"None", "True", "False"}, cr \in BOOLEAN, caught \in BOOLEAN :
            transaction_pop_call(MainTask, a, cr, caught)

SpecCalls == InitCalls /\ [][NextCalls]_vars

\* ------------------------------------------------------------- enums
\* A value handed to _deserialize_enum: a str, or a member of an Enum class
\* (type: the class, name: the member's name, value: its string value).
Str(v) == [type |-> "str", name |-> NoneVal, value |-> v]
Member(e, n, v) == [type |-> e, name |-> n, value |-> v]
\* class Propagation(enum.Enum) / class Isolation(enum.Enum)
PropagationMembers ==
    { Member("Propagation", "REQUIRED", "required"),
      Member("Propagation", "NEW", "new"),
      Member("Propagation", "MANDATORY", "mandatory") }
IsolationMembers ==
    { Member("Isolation", "DEFAULT", "DEFAULT"),
      Member("Isolation", "READ_UNCOMMITTED", "READ UNCOMMITTED"),
      Member("Isolation", "READ_COMMITTED", "READ COMMITTED"),
      Member("Isolation", "REPEATABLE_READ", "REPEATABLE READ"),
      Member("Isolation", "SERIALIZABLE", "SERIALIZABLE") }
EnumClasses == {"Propagation", "Isolation"}
MembersOf(target) == IF target = "Propagation" THEN PropagationMembers ELSE IsolationMembers
\* The arguments a declaration passes: members, their values as strings,
\* and strings that are the value of no member.
DeclaredValues ==
    PropagationMembers \cup IsolationMembers
        \cup {Str(m.value) : m \in PropagationMembers \cup IsolationMembers}
        \cup {Str("REQUIRED"), Str("READ_COMMITTED")}

\* _deserialize_enum looking the string up by member name (target[value]).
deserialize_enum_by_name(target, value) ==
    IF value.type = "str"
    THEN IF \E m \in MembersOf(target) : m.name = value.value
         THEN CHOOSE m \in MembersOf(target) : m.name = value.value
         ELSE [type |-> "KeyError", name |-> NoneVal, value |-> value.value]
    ELSE value

\* _deserialize_enum(target, value): target(value) for a str (the member
\* with that value, else ValueError), the value itself otherwise.
deserialize_enum(target, value) ==
    IF value.type = "str"
    THEN IF \E m \in MembersOf(target) : m.value = value.value
         THEN CHOOSE m \in MembersOf(target) : m.value = value.value
         ELSE [type |-> "ValueError", name |-> NoneVal, value |-> value.value]
    ELSE value

\* Calls of _deserialize_enum recorded in one run.
MaxDeclarations == 2

\* transactional(propagation=..., isolation=...), lines 297-298: one call of
\* _deserialize_enum, recorded with its arguments and its result.
declare(target, value) ==
    /\ Len(trace) < MaxDeclarations
    /\ trace' = Append(trace, Ev("_deserialize_enum", NoSession, NoCtx,
                                 <<target, value>>, 0, deserialize_enum(target, value)))
    /\ UNCHANGED <<extensions, nsess, ctxs, slot, mgrs, stack>>

NextEnums == \E target \in EnumClasses, value \in DeclaredValues : declare(target, value)

SpecEnums == Init /\ [][NextEnums]_vars

\* ----------------------------------------------------- concurrent chains
\* Two call chains that inherited nothing from each other (two threads, or
\* two tasks serving two requests), interleaved step by step.
Chains == {"chain1", "chain2"}
\* The units of work the chains call, as declared.
ChainUnits ==
    { Unit("required", "DEFAULT", "None", NoneVal, NoneVal),
      Unit("new", "DEFAULT", "None", NoneVal, NoneVal),
      Unit("mandatory", "DEFAULT", "None", NoneVal, NoneVal) }

InitChains ==
    /\ extensions = [init |-> TRUE, autocommit |-> TRUE]
    /\ nsess = 0
    /\ ctxs = <<>>
    /\ slot = [t \in Chains |-> NoCtx]
    /\ mgrs = <<>>
    /\ stack = [t \in Chains |-> <<>>]
    /\ trace = <<>>

\* Either chain takes the next step: it is dispatched by the middleware,
\* enters a unit's with-statement or leaves the innermost one.  The units
\* of the chains return normally; an exit fails when session.commit() does.
NextChains ==
    \E t \in Chains :
        \/ dispatch(t)
        \/ \E u \in ChainUnits, catch \in CatchChoices :
                local_transaction(t, u.propagation, u.isolation, u.autocommit,
                                  u.rollback_callback, u.exception_callback, catch)
        \/ \E u \in ChainUnits, cover \in CoverChoices, catch \in CatchChoices :
                transactional(t, u.propagation, u.isolation, u.autocommit,
                              u.rollback_callback, u.exception_callback, cover, catch)
        \/ \E ret \in CallbackReturns, cr \in BOOLEAN, catch \in CatchChoices :
                ExitScope(t, NoneVal, ret, cr, catch)

SpecChains == InitChains /\ [][NextChains]_vars

\* ================================================================ claims
\* Reading the recorded run.
Scopes == 1..Len(mgrs)
Entered(m) == mgrs[m].status # "enter_failed"
Exited(m) == mgrs[m].status = "exited"
\* Manager m's __enter__ made an owning context (is_super).
Owns(m) == Entered(m) /\ ctxs[mgrs[m].ctx].is_super
AllExited == \A t \in Tasks : stack[t] = <<>>
\* Positions of the trace holding a call of op on session s / by manager m.
OnSession(op, s) == {k \in 1..Len(trace) : trace[k].op = op /\ trace[k].sess = s}
ByScope(op, m) == {k \in 1..Len(trace) : trace[k].op = op /\ trace[k].by = m}
Finalizers == {"commit", "rollback", "close"}
\* session.commit() raised during manager m's __exit__.
CommitRaisedBy(m) == \E k \in ByScope("commit", m) : trace[k].ret = "raise"
\* The session the context c was created with.
SessionOf(c) == mgrs[CHOOSE k \in Scopes : mgrs[k].ctx = c].session

\* No session.commit() has raised so far.
NoCommitRaised == \A k \in 1..Len(trace) : trace[k].ret # "raise"

\* C1: once every scope has exited, each session created for an owning scope
\* has been closed exactly once, every commit/rollback/close it received was
\* made by that owner's __exit__ (none by another scope's), and none follows
\* the close.  Stated for the runs in which no commit fails.
C1_OneFinalizePerOwner ==
    (AllExited /\ NoCommitRaised) =>
        \A m \in Scopes : Owns(m) =>
            LET s == mgrs[m].session
            IN  /\ Cardinality(OnSession("close", s)) = 1
                /\ \A k \in 1..Len(trace) :
                      (trace[k].sess = s /\ trace[k].op \in Finalizers)
                          => /\ trace[k].by = m
                             /\ \A c \in OnSession("close", s) : k <= c

\* C2: the scenario of an owning REQUIRED outer scope with autocommit on
\* whose only nested scope, REQUIRED, raises E.
C2_Scenario(o, i) ==
    /\ Exited(o) /\ Exited(i)
    /\ mgrs[o].propagation = "required" /\ mgrs[o].autocommit
    /\ mgrs[o].slot_before = NoCtx
    /\ mgrs[i].propagation = "required" /\ mgrs[i].parent = o
    /\ \A j \in Scopes : (j # i /\ j # o) => mgrs[j].parent \notin {o, i}
    /\ mgrs[i].exc \in BizErrors
    /\ mgrs[o].exc = mgrs[i].exc

\* C2: in that scenario the inner exit does nothing, the outer exit rolls
\* the session back, invokes each supplied callback once, closes the
\* session, and the outer caller receives E.
C2_InnerRaisesOuterRecovers ==
    \A o \in Scopes, i \in Scopes : C2_Scenario(o, i) =>
        /\ \A k \in 1..Len(trace) : trace[k].by # i
        /\ ByScope("rollback", o) # {}
        /\ ByScope("close", o) # {}
        /\ \A k \in ByScope("rollback", o) \cup ByScope("close", o) :
              trace[k].sess = mgrs[o].session
        /\ mgrs[o].rollback_callback # NoneVal
              => Cardinality(ByScope("rollback_callback", o)) = 1
        /\ mgrs[o].exception_callback # NoneVal
              => Cardinality(ByScope("exception_callback", o)) = 1
        /\ mgrs[o].result = mgrs[i].exc

\* C3: when the unit of an owning scope raised E, a supplied
\* rollback_callback was invoked exactly once, with E, and the scope's
\* session was rolled back before it was closed.
C3_RaiseRollsBack ==
    \A m \in Scopes :
        (Exited(m) /\ Owns(m) /\ mgrs[m].exc \in BizErrors) =>
            LET s == mgrs[m].session
                cb == {k \in 1..Len(trace) : /\ trace[k].op = "rollback_callback"
                                             /\ trace[k].ctx = mgrs[m].ctx}
            IN  /\ mgrs[m].rollback_callback # NoneVal
                      => /\ Cardinality(cb) = 1
                         /\ \A k \in cb : trace[k].arg = mgrs[m].exc
                /\ \E r \in OnSession("rollback", s), c \in OnSession("close", s) : r < c

\* C4: when an owning scope ended with a failure reaching its caller, its
\* session has been closed and the slot is back at the value it had before
\* the scope was entered.
C4_FailureReleases ==
    \A m \in Scopes :
        (Exited(m) /\ Owns(m) /\ mgrs[m].result # NoneVal) =>
            /\ OnSession("close", mgrs[m].session) # {}
            /\ mgrs[m].slot_after = mgrs[m].slot_before

\* C5: when the unit of an owning scope with autocommit on succeeded and
\* session.commit() raised C, each supplied callback was invoked exactly
\* once with C, in the order exception_callback, rollback, rollback_callback.
C5_CommitErrorToCallbacks ==
    \A m \in Scopes :
        (Exited(m) /\ Owns(m) /\ mgrs[m].autocommit
            /\ mgrs[m].exc = NoneVal /\ CommitRaisedBy(m)) =>
            LET ex == ByScope("exception_callback", m)
                rb == ByScope("rollback_callback", m)
                ro == ByScope("rollback", m)
            IN  /\ mgrs[m].exception_callback # NoneVal
                      => /\ Cardinality(ex) = 1
                         /\ \A k \in ex : trace[k].arg = CommitError
                /\ mgrs[m].rollback_callback # NoneVal
                      => /\ Cardinality(rb) = 1
                         /\ \A k \in rb : trace[k].arg = CommitError
                /\ Cardinality(ro) = 1
                /\ \A a \in ex, b \in ro : a < b
                /\ \A b \in ro, c \in rb : b < c

\* C6: the failure the caller of an owning scope observes is the commit
\* error when session.commit() raised during its exit (also when the unit
\* had raised), and otherwise exactly what the unit raised (nothing when it
\* raised nothing): exit swallows no failure.
C6_CallerObserves ==
    \A m \in Scopes : (Exited(m) /\ Owns(m)) =>
        mgrs[m].result = IF CommitRaisedBy(m) THEN CommitError ELSE mgrs[m].exc

\* C6 witness: an owning scope whose unit raised a business failure and
\* whose commit then raised: its caller got the commit error.
C6_Witness ==
    \E m \in Scopes :
        /\ Exited(m) /\ Owns(m)
        /\ mgrs[m].exc \in BizErrors
        /\ CommitRaisedBy(m)
        /\ mgrs[m].result = CommitError

\* C7: after an outermost scope has exited, normally or with an error, the
\* slot holds the value it held before that scope was entered.  Stated for
\* the runs in which no commit fails.
C7_SlotRestored ==
    NoCommitRaised =>
        \A m \in Scopes : (Exited(m) /\ mgrs[m].parent = 0) =>
            mgrs[m].slot_after = mgrs[m].slot_before

\* Manager o's unit encloses manager i's with-statement.
RECURSIVE Encloses(_, _)
Encloses(o, i) ==
    IF mgrs[i].parent = 0 THEN FALSE
    ELSE IF mgrs[i].parent = o THEN TRUE
    ELSE Encloses(o, mgrs[i].parent)

\* C8: a nesting of REQUIRED units inside a REQUIRED or NEW outer unit o:
\* every scope entered since o, up to and including i, is REQUIRED.
C8_Nesting(o, i) ==
    /\ o < i /\ Entered(o) /\ Encloses(o, i)
    /\ mgrs[o].propagation \in {"required", "new"}
    /\ \A j \in Scopes : (o < j /\ j <= i) => mgrs[j].propagation = "required"

\* C8: in such a nesting every inner context is bound to the very session
\* of the outer context, and the factory made no session for the inner units.
C8_InnerSharesSession ==
    \A o \in Scopes, i \in Scopes : C8_Nesting(o, i) =>
        /\ Entered(i)
        /\ mgrs[i].session = mgrs[o].session
        /\ \A j \in Scopes : (o < j /\ j <= i) => ByScope("session_factory", j) = {}

\* C8 witness: two REQUIRED units nested, one in the other, inside a NEW
\* outer unit, all three bound to one session.
C8_Witness ==
    \E o \in Scopes, i \in Scopes, j \in Scopes :
        /\ C8_Nesting(o, j)
        /\ mgrs[o].propagation = "new"
        /\ mgrs[i].parent = o /\ mgrs[j].parent = i
        /\ mgrs[j].session = mgrs[o].session
        /\ mgrs[i].session = mgrs[o].session

\* C9: a NEW scope n entered under an ambient context A got a fresh session,
\* other than A's; nothing n did touched A's session; and once n has exited
\* the slot holds A again.
C9_NewLeavesAmbient ==
    \A n \in Scopes :
        (Entered(n) /\ mgrs[n].propagation = "new" /\ mgrs[n].slot_before # NoCtx) =>
            LET a == SessionOf(mgrs[n].slot_before)
            IN  /\ mgrs[n].session # a
                /\ ByScope("session_factory", n) # {}
                /\ \A k \in 1..Len(trace) :
                      (trace[k].by = n /\ trace[k].op \in Finalizers) => trace[k].sess # a
                /\ Exited(n) => mgrs[n].slot_after = mgrs[n].slot_before

\* C10: entering a MANDATORY scope while the slot is empty fails with the
\* no-context error; no session was made, no context stored, and the slot
\* is still empty.
C10_MandatoryWithoutAmbient ==
    \A m \in Scopes :
        (mgrs[m].propagation = "mandatory" /\ mgrs[m].slot_before = NoCtx) =>
            /\ mgrs[m].status = "enter_failed"
            /\ mgrs[m].result = "SessionContextError"
            /\ mgrs[m].ctx = NoCtx
            /\ \A k \in 1..Len(trace) : trace[k].by # m
            /\ \A c \in 1..Len(ctxs) : \E k \in Scopes : k # m /\ mgrs[k].ctx = c
            /\ mgrs[m].slot_after = NoCtx

\* C10 witness: a MANDATORY scope was attempted with the slot empty.
C10_Witness ==
    \E m \in Scopes :
        /\ mgrs[m].propagation = "mandatory"
        /\ mgrs[m].slot_before = NoCtx
        /\ mgrs[m].status = "enter_failed"

\* Manager m's __exit__ retrieved from the slot the context m's own
\* __enter__ had made.
ExitOnOwn(m) == Exited(m) /\ mgrs[m].exit_ctx = mgrs[m].ctx
\* The calls of a supplied callback.
Callbacks == {"exception_callback", "rollback_callback"}
\* Positions of the trace holding what manager m's __exit__ did.
ExitEvents(m) == {k \in 1..Len(trace) : trace[k].by = m /\ trace[k].op \in Finalizers \cup Callbacks}

\* C11: the exit of a scope whose context is not owning (is_super false)
\* commits, rolls back and closes nothing and invokes no callback, whether
\* its unit returned or raised, and what its unit raised is what reaches the
\* enclosing scope.
C11_NonOwnerExitIdle ==
    \A m \in Scopes : (Exited(m) /\ ~Owns(m)) =>
        /\ ExitEvents(m) = {}
        /\ mgrs[m].result = mgrs[m].exc

\* The exception_callback returned exactly False in the error step of manager
\* m's __exit__ (which then called session.rollback()).
RollbackForced(m) ==
    /\ mgrs[m].exc # NoneVal
    /\ \E k \in ByScope("exception_callback", m) : trace[k].ret = "False"

\* C12: in the exit of an owning scope that acted on the scope's own
\* context, session.commit() was attempted exactly when the context's
\* autocommit is true and the error step forced no rollback.
C12_CommitIffNotForced ==
    \A m \in Scopes : (ExitOnOwn(m) /\ Owns(m)) =>
        (ByScope("commit", m) # {}
            <=> (ctxs[mgrs[m].ctx].autocommit /\ ~RollbackForced(m)))

\* The error step of manager m's __exit__: what it did up to its attempt
\* to commit.
ErrorStep(m, op) == {k \in ByScope(op, m) : \A c \in ByScope("commit", m) : k < c}

\* C13: when the unit of an owning scope raised E, the error step invoked a
\* supplied exception_callback with E, then rolled the session back exactly
\* when that callback returned False, then invoked a supplied
\* rollback_callback with E.
C13_ErrorStepOrder ==
    \A m \in Scopes : (Exited(m) /\ Owns(m) /\ mgrs[m].exc # NoneVal) =>
        LET ex == ErrorStep(m, "exception_callback")
            ro == ErrorStep(m, "rollback")
            rb == ErrorStep(m, "rollback_callback")
        IN  /\ mgrs[m].exception_callback # NoneVal
                  => /\ Cardinality(ex) = 1
                     /\ \A k \in ex : trace[k].arg = mgrs[m].exc
            /\ mgrs[m].exception_callback = NoneVal => ex = {}
            /\ ro # {} <=> \E k \in ex : trace[k].ret = "False"
            /\ mgrs[m].rollback_callback # NoneVal
                  => /\ Cardinality(rb) = 1
                     /\ \A k \in rb : trace[k].arg = mgrs[m].exc
            /\ mgrs[m].rollback_callback = NoneVal => rb = {}
            /\ \A a \in ex, b \in ro \cup rb : a < b
            /\ \A b \in ro, c \in rb : b < c

\* C14: one exit of an owning scope invokes each callback at most once and
\* calls session.rollback() at most once.
C14_AtMostOnce ==
    \A m \in Scopes : (Exited(m) /\ Owns(m)) =>
        /\ Cardinality(ByScope("exception_callback", m)) <= 1
        /\ Cardinality(ByScope("rollback_callback", m)) <= 1
        /\ Cardinality(ByScope("rollback", m)) <= 1

\* C15: the context __enter__ returned is owning (is_super) exactly when the
\* propagation asked for is NEW or the slot held no context just before the
\* call, and the flag stays so for as long as the context exists.
C15_IsSuperDecision ==
    \A m \in Scopes : Entered(m) =>
        (ctxs[mgrs[m].ctx].is_super
            <=> (mgrs[m].propagation = "new" \/ mgrs[m].slot_before = NoCtx))

\* C15 witness: a MANDATORY scope that joined an ambient context (not
\* owning) has exited, and so has a NEW scope entered under an ambient
\* context (owning).
C15_Witness ==
    \E m \in Scopes, n \in Scopes :
        /\ Exited(m) /\ mgrs[m].propagation = "mandatory"
        /\ mgrs[m].slot_before # NoCtx /\ ~ctxs[mgrs[m].ctx].is_super
        /\ Exited(n) /\ mgrs[n].propagation = "new"
        /\ mgrs[n].slot_before # NoCtx /\ ctxs[mgrs[n].ctx].is_super

\* The scopes of task t, and the first of them.
ScopesOf(t) == {m \in Scopes : mgrs[m].task = t}
\* The scope of dispatch's with-statement and the context A it made.
DispatchScope == CHOOSE m \in ScopesOf(RequestTask) : TRUE
RequestCtx == mgrs[DispatchScope].ctx

\* C17: the handler's task, started by call_next while the dispatching
\* task's slot holds A, starts with A in its slot; whatever scopes it enters
\* and exits, the dispatching task's slot still holds A, and the exit of
\* dispatch's with-statement retrieves A.
C17_ChildLeavesParentSlot ==
    Spawned =>
        /\ ScopesOf(HandlerTask) = {} => slot[HandlerTask] = RequestCtx
        /\ \A m \in ScopesOf(HandlerTask) :
              (\A n \in ScopesOf(HandlerTask) : m <= n) => mgrs[m].slot_before = RequestCtx
        /\ RequestOpen => slot[RequestTask] = RequestCtx
        /\ Exited(DispatchScope) => mgrs[DispatchScope].exit_ctx = RequestCtx

\* C17 witness: the handler entered and left a REQUIRED scope and a NEW
\* scope, and dispatch's exit then retrieved A.
C17_Witness ==
    /\ Spawned
    /\ Exited(DispatchScope)
    /\ mgrs[DispatchScope].exit_ctx = RequestCtx
    /\ \E m \in ScopesOf(HandlerTask), n \in ScopesOf(HandlerTask) :
          /\ Exited(m) /\ mgrs[m].propagation = "required"
          /\ Exited(n) /\ mgrs[n].propagation = "new"

\* The isolation statements executed on behalf of context c.
IsolationStatements(c) == {k \in 1..Len(trace) : trace[k].op = "execute" /\ trace[k].ctx = c}

\* C18: creating a context with an isolation level other than DEFAULT
\* executes exactly one isolation statement on the context's session, with
\* that level; creating one with DEFAULT executes none.
C18_IsolationStatement ==
    \A m \in Scopes : Entered(m) =>
        LET st == {k \in IsolationStatements(mgrs[m].ctx) : trace[k].by = m}
        IN  IF mgrs[m].isolation = "DEFAULT"
            THEN st = {}
            ELSE /\ Cardinality(st) = 1
                 /\ \A k \in st : /\ trace[k].arg = mgrs[m].isolation
                                  /\ trace[k].sess = mgrs[m].session

\* C19: over a context's whole life, through its creation and every later
\* active_isolation call of the wrapper's rewrite, at most one isolation
\* statement is executed for it.
C19_AtMostOneStatement ==
    \A c \in 1..Len(ctxs) : Cardinality(IsolationStatements(c)) <= 1

\* C19 witness: the request's context has been rewritten to a level other
\* than DEFAULT, and two units were called while it was the ambient context.
C19_Witness ==
    \E c \in 1..Len(ctxs), m \in Scopes, n \in Scopes :
        /\ ctxs[c].source = "request"
        /\ ctxs[c].isolation # "DEFAULT"
        /\ ctxs[c].is_active_isolation
        /\ m < n
        /\ mgrs[m].slot_before = c /\ mgrs[n].slot_before = c

\* C20: a call of a wrapped unit overwrites the ambient context's
\* propagation, isolation, autocommit and callbacks with the declared values
\* (autocommit: the provider's when undeclared) exactly when there is an
\* ambient context, its source is 'request' and cover_request_transaction is
\* true; otherwise the context is left as it was.  The rewrite changes no
\* other context, not the session nor is_super, and makes no session.
C20_RewriteIff ==
    \A t \in DOMAIN slot, u \in HandlerUnits, cover \in BOOLEAN :
        LET w == wrapper_rewrite(t, u.propagation, u.isolation, u.autocommit,
                                 u.rollback_callback, u.exception_callback, cover, 0)
            a == slot[t]
        IN  /\ Len(w.ctxs) = Len(ctxs)
            /\ \A c \in 1..Len(ctxs) : c # a => w.ctxs[c] = ctxs[c]
            /\ ~Called(w.events, "session_factory")
            /\ a # NoCtx =>
                  /\ w.ctxs[a].session = ctxs[a].session
                  /\ w.ctxs[a].is_super = ctxs[a].is_super
                  /\ IF ctxs[a].source = "request" /\ cover
                     THEN /\ w.ctxs[a].propagation = u.propagation
                          /\ w.ctxs[a].isolation = u.isolation
                          /\ w.ctxs[a].autocommit =
                                (IF u.autocommit = "None" THEN extensions.autocommit
                                 ELSE u.autocommit = "True")
                          /\ w.ctxs[a].rollback_callback = u.rollback_callback
                          /\ w.ctxs[a].exception_callback = u.exception_callback
                     ELSE w.ctxs[a] = ctxs[a]
            /\ LET r == TransactionManager_enter(t, u.propagation, u.isolation, u.autocommit,
                                                 u.rollback_callback, u.exception_callback,
                                                 w.ctxs, 0)
               IN  \A c \in 1..Len(ctxs) : r.ctxs[c] = w.ctxs[c]

\* C20 witness: the request's context, made by dispatch with propagation NEW
\* and no callbacks, now carries a wrapped unit's MANDATORY policy and
\* callbacks, with the session and the is_super flag dispatch gave it.
C20_Witness ==
    /\ Spawned
    /\ ctxs[RequestCtx].source = "request"
    /\ ctxs[RequestCtx].propagation = "mandatory"
    /\ ctxs[RequestCtx].exception_callback = "handle_exception"
    /\ ~ctxs[RequestCtx].autocommit
    /\ ctxs[RequestCtx].is_super
    /\ ctxs[RequestCtx].session = mgrs[DispatchScope].session

\* The chain whose scope made context c / whose scope had session s made.
ChainOfCtx(c) == mgrs[CHOOSE m \in Scopes : mgrs[m].ctx = c].task
ChainOfSession(s) == mgrs[trace[CHOOSE k \in OnSession("session_factory", s) : TRUE].by].task

\* C16: with two independent chains interleaved, a chain's slot never holds
\* a context made by the other chain, owning scopes of different chains hold
\* different sessions, and every commit, rollback and close is done by a
\* scope of the chain the session was made for.
C16_ChainsApart ==
    /\ \A t \in Chains : slot[t] # NoCtx => ChainOfCtx(slot[t]) = t
    /\ \A m \in Scopes, n \in Scopes :
          (Owns(m) /\ Owns(n) /\ mgrs[m].task # mgrs[n].task)
              => mgrs[m].session # mgrs[n].session
    /\ \A k \in 1..Len(trace) :
          trace[k].op \in Finalizers
              => ChainOfSession(trace[k].sess) = mgrs[trace[k].by].task

\* C16 witness: each chain had an owning scope, the second entered while
\* the first was open and exited after the first had closed its session.
C16_Witness ==
    \E m \in Scopes, n \in Scopes :
        /\ mgrs[m].task # mgrs[n].task
        /\ Owns(m) /\ Owns(n) /\ Exited(m) /\ Exited(n)
        /\ \E a \in ByScope("session_factory", n), b \in ByScope("close", m),
              c \in ByScope("close", n) : a < b /\ b < c

\* C21: when the wrapper has rewritten the request's context, made with
\* isolation DEFAULT, to another level, the isolation statement for that
\* level has been executed on the context's session.
C21_RewriteAppliesLevel ==
    \A c \in 1..Len(ctxs) :
        (ctxs[c].source = "request" /\ ctxs[c].isolation # "DEFAULT") =>
            \E k \in IsolationStatements(c) :
                /\ trace[k].arg = ctxs[c].isolation
                /\ trace[k].sess = SessionOf(c)

\* C25: the context a scope's __exit__ retrieved, tested for is_super and
\* finalized is the one the same manager's __enter__ had made, whatever
\* scopes were entered and exited inside its unit.
C25_ExitOnOwnContext ==
    \A m \in Scopes : Exited(m) => mgrs[m].exit_ctx = mgrs[m].ctx

\* C26: no session is closed more than once, and no session is committed or
\* rolled back after it has been closed.
C26_NoUseAfterClose ==
    \A s \in 1..nsess :
        /\ Cardinality(OnSession("close", s)) <= 1
        /\ \A k \in OnSession("commit", s) \cup OnSession("rollback", s) :
              \A c \in OnSession("close", s) : k < c

\* C26 witness: a session whose commit had failed in its own scope's exit
\* was committed again and closed by the exit of the enclosing scope, and
\* another session was closed by its own scope.
C26_Witness ==
    \E m \in Scopes, n \in Scopes, o \in Scopes :
        /\ m # n /\ CommitRaisedBy(m)
        /\ \E k \in ByScope("close", n) : trace[k].sess = mgrs[m].session
        /\ \E k \in ByScope("close", o) : trace[k].sess = mgrs[o].session

\* C24: deserializing the string value of a member of the target enum gives
\* that member, deserializing a member gives the same member, and distinct
\* members of an enum have distinct string values.
C24_EnumRoundTrip ==
    /\ \A k \in 1..Len(trace) :
          LET target == trace[k].arg[1]
              value == trace[k].arg[2]
          IN  /\ \A m \in MembersOf(target) : value = Str(m.value) => trace[k].ret = m
              /\ value.type # "str" => trace[k].ret = value
    /\ \A e \in EnumClasses : \A m \in MembersOf(e), n \in MembersOf(e) :
          m.value = n.value => m = n

\* C24 witness: a member's value was deserialized from its string (one whose
\* name differs from its value), and a member was passed through.
C24_Witness ==
    \E j \in 1..Len(trace), k \in 1..Len(trace) :
        /\ trace[j].arg[2] = Str("REPEATABLE READ")
        /\ trace[j].ret = Member("Isolation", "REPEATABLE_READ", "REPEATABLE READ")
        /\ trace[k].arg[2] = Member("Propagation", "MANDATORY", "mandatory")
        /\ trace[k].ret = trace[k].arg[2]

\* The operations C22 names, as recorded when called by hand.
NamedOperations == {"ctx.app", "ctx.session", "ctx.context", "get_transaction_context", "set_transaction_context"}

\* C22: as long as the provider has not been initialised, every scope entry
\* and wrapped-unit call, every get/set of the slot and every proxy access
\* made so far failed with SessionInitError, no session was made, no context
\* exists and the slot is as it was (empty).
C22_UninitializedFails ==
    check_init_raises =>
        /\ \A m \in Scopes : /\ mgrs[m].status = "enter_failed"
                             /\ mgrs[m].result = "SessionInitError"
        /\ \A k \in 1..Len(trace) :
              /\ trace[k].op \in ByHand
              /\ trace[k].op \in NamedOperations => trace[k].ret = "SessionInitError"
        /\ nsess = 0
        /\ ctxs = <<>>
        /\ \A t \in DOMAIN slot : slot[t] = NoCtx

\* C22 witness: before initialisation a scope entry has failed and so has a
\* proxy read.
C22_Witness ==
    /\ check_init_raises
    /\ \E m \in Scopes : mgrs[m].result = "SessionInitError"
    /\ \E k \in 1..Len(trace) : /\ trace[k].op \in ProxyReads
                                /\ trace[k].ret = "SessionInitError"

\* C23: a proxy read (ctx.session, ctx.context) with the provider initialised
\* returns the context in the caller's slot / that context's session, fails
\* with SessionContextError when the slot is empty, and in every case
\* changes nothing: not the slot, no context, no session.
C23_ProxyReadsPure ==
    [][ (Len(trace') = Len(trace) + 1 /\ trace'[Len(trace')].op \in ProxyReads) =>
            LET e == trace'[Len(trace')]
                a == slot[MainTask]
            IN  /\ UNCHANGED <<extensions, nsess, ctxs, slot, mgrs, stack>>
                /\ (~check_init_raises /\ a = NoCtx) => e.ret = "SessionContextError"
                /\ (~check_init_raises /\ a # NoCtx) =>
                      /\ e.ret = "ok"
                      /\ e.ctx = a
                      /\ e.op = "ctx.session" =>
                            /\ e.sess = ctxs[a].session
                            /\ e.sess = SessionOf(a)
       ]_vars

\* C23 witness: ctx.session was read inside a scope entered under another
\* one and returned that scope's context's session; nothing was closed.
C23_Witness ==
    \E k \in 1..Len(trace) :
        /\ trace[k].op = "ctx.session"
        /\ trace[k].ret = "ok"
        /\ trace[k].ctx # NoCtx
        /\ mgrs[CHOOSE m \in Scopes : mgrs[m].ctx = trace[k].ctx].slot_before # NoCtx
        /\ trace[k].sess = SessionOf(trace[k].ctx)

\* C27: with the provider initialised, transaction_pop called with the slot
\* empty returns None and does nothing; called with context X in the slot it
\* commits X's session exactly when the resolved autocommit (the argument,
\* else X.autocommit) is true, then closes the session, deletes X's session
\* attribute and puts back in the slot what it held before X was set.
C27_TransactionPop ==
    [][ (Len(trace') > Len(trace) /\ trace'[Len(trace) + 1].op = "transaction_pop"
            /\ ~check_init_raises) =>
            LET call == trace'[Len(trace) + 1]
                done == SubSeq(trace', Len(trace) + 2, Len(trace'))
                x == slot[MainTask]
            IN  IF x = NoCtx
                THEN /\ call.ret = "None"
                     /\ done = <<>>
                     /\ UNCHANGED <<extensions, nsess, ctxs, slot, mgrs, stack>>
                ELSE LET auto == IF call.arg = "None" THEN ctxs[x].autocommit
                                 ELSE call.arg = "True"
                         s == ctxs[x].session
                         commit == [op |-> "commit", sess |-> s, ctx |-> x,
                                    arg |-> NoneVal, by |-> 0, ret |-> "None"]
                         close == [commit EXCEPT !.op = "close"]
                     IN  /\ s # NoSession
                         /\ Called(done, "commit") <=> auto
                         /\ (\A i \in 1..Len(done) : done[i].ret # "raise") =>
                               /\ call.ret = "None"
                               /\ done = IF auto THEN <<commit, close>> ELSE <<close>>
                               /\ ctxs' = [ctxs EXCEPT ![x].session = NoSession,
                                                       ![x].tok_used = TRUE]
                               /\ slot'[MainTask] =
                                     mgrs[CHOOSE m \in Scopes : mgrs[m].ctx = x].slot_before
                               /\ UNCHANGED <<extensions, nsess, mgrs, stack>>
       ]_vars

\* C27 witness: transaction_pop() without argument was called with the
\* context of a nested scope in the slot: the session was committed and
\* closed, the attribute deleted, and the slot holds the enclosing context.
C27_Witness ==
    \E k \in 1..Len(trace) :
        /\ trace[k].op = "transaction_pop"
        /\ trace[k].arg = "None"
        /\ trace[k].ctx # NoCtx
        /\ trace[k].ret = "None"
        /\ k + 2 <= Len(trace)
        /\ trace[k + 1].op = "commit" /\ trace[k + 2].op = "close"
        /\ ctxs[trace[k].ctx].session = NoSession
        /\ slot[MainTask] # NoCtx
        /\ slot[MainTask] = mgrs[CHOOSE m \in Scopes : mgrs[m].ctx = trace[k].ctx].slot_before

====
